---- MODULE Spec2Model ----
(***************************************************************************)
(* A model of main.py: the chat-export importer.                           *)
(*                                                                         *)
(*   parseJsonObject / loadJson   the mojibake repair applied to every     *)
(*                                object of a parsed chunk file            *)
(*   Conversation.loadMessages    folding chunk documents into one         *)
(*                                conversation                             *)
(*   Database.save / removeAll    writing a conversation into the eleven   *)
(*                                sqlite tables, one transaction per save  *)
(*   the module-level run loop    wipe, then one conversation per          *)
(*                                directory, no exception handler          *)
(*                                                                         *)
(* Three specifications share the operators translated from the code:      *)
(*   Spec         the whole run (removeAll, the directory loop, save)      *)
(*   SpecMessage  Database._saveMessage on one message record, over a      *)
(*                range of timestamps                                      *)
(*   SpecRepair   parseJsonObject on one JSON object, over strings of      *)
(*                code points                                              *)
(***************************************************************************)
EXTENDS Integers, Sequences, FiniteSets, TLC

VARIABLES
    pc,            \* position of the script: see the actions
    db,            \* what the sqlite connection sees: committed rows and the rows of the open transaction
    disk,          \* the committed contents of database.db
    convo_id,      \* the enumerate() index of the run loop, -1 before the first iteration
    conversation,  \* the Conversation object of the current iteration
    json,          \* the document last handed to Conversation.loadMessages
    chunks,        \* history: the documents merged into the current conversation, in merge order
    fault,         \* history: which step raised ("none" while nothing has)
    item,          \* SpecMessage: the message record handed to _saveMessage
    obj,           \* SpecRepair: the JSON object handed to parseJsonObject
    orig,          \* SpecRepair: the object as it was before the export's encoding defect
    parsed         \* SpecRepair: what parseJsonObject returned

vars == <<pc, db, disk, convo_id, conversation, json, chunks, fault, item, obj, orig, parsed>>

(***************************************************************************)
(* Bounds                                                                  *)
(***************************************************************************)
\* conversation directories under messages/
MaxConvos == 2
\* message_<n>.json files in one directory
MaxChunks == 2
\* message records in the whole export, over all directories and chunks
MaxMsgs == 2
\* SpecMessage: |timestamp_ms| of the message record
MaxMs == 2500
\* SpecRepair: code points in a string field
MaxLen == 2
\* SpecRepair: code points in a string element of a list field
MaxElemLen == 1

(***************************************************************************)
(* Values                                                                  *)
(***************************************************************************)
\* Python's None; sqlite row ids are positive
None == -1
\* failAt when no insert of a save raises
NoFail == None

Max(S) == CHOOSE m \in S : \A n \in S : n <= m

RECURSIVE Concat(_)
Concat(ss) == IF ss = <<>> THEN <<>> ELSE Head(ss) \o Concat(Tail(ss))

SeqsUpTo(S, n) == UNION {[1..k -> S] : k \in 0..n}

(***************************************************************************)
(* The tables                                                              *)
(***************************************************************************)
RemovedTables ==
    <<"conversations", "participants", "messages", "photos",
      "shares", "files", "gifs", "videos", "audio_files",
      "reactions", "stickers">>

attachements == <<"photos", "videos", "files", "audio_files", "gifs">>

Tables == {"conversations", "participants", "messages", "reactions",
           "photos", "videos", "files", "audio_files", "gifs",
           "shares", "stickers"}

MessageChildTables == Tables \ {"conversations", "participants", "messages"}

EmptyDb == [t \in Tables |-> <<>>]

\* A row left in a table by an earlier run of the script; its text column
\* holds "old", which no document of this run contains.
PriorRow(t) ==
    CASE t = "conversations" -> [id |-> 0, title |-> "old", type |-> "Regular", path |-> "old"]
      [] t = "participants"  -> [id |-> 1, convo_id |-> 0, name |-> "old", current |-> 1]
      [] t = "messages"      -> [id |-> 1, timestamp_s |-> 0, type |-> "Generic", sender_id |-> 1,
                                 conversation_id |-> 0, content |-> "old"]
      [] t = "reactions"     -> [message_id |-> 1, user_id |-> 1, reaction |-> "old"]
      [] t = "shares"        -> [message_id |-> 1, link |-> "old", share_text |-> "old"]
      [] t = "stickers"      -> [message_id |-> 1, path |-> "old"]
      [] OTHER               -> [message_id |-> 1, filename |-> "old"]

PriorDbs == {[t \in Tables |-> IF t \in S THEN <<PriorRow(t)>> ELSE <<>>] : S \in SUBSET Tables}

\* cursor.lastrowid after an INSERT: sqlite gives the new row an id one above
\* the largest in the table
NextRowId(rows) == IF rows = <<>> THEN 1 ELSE Max({rows[i].id : i \in DOMAIN rows}) + 1

(***************************************************************************)
(* Input documents                                                         *)
(***************************************************************************)
Names == {"Alice", "Bob", "Carol"}

\* A string that the code splits is a sequence of pieces; "/" is the separator.
UriPhoto == <<"photos", "/", "p1.jpg">>
UriGif == <<"gifs", "/", "g1.gif">>
UriSticker == <<"/", "stickers", "/", "s1.webp">>

MsgA ==
    [sender_name |-> "Alice", timestamp_ms |-> 1500, type |-> "Generic", content |-> "hi",
     reactions |-> <<[actor |-> "Carol", reaction |-> "heart"]>>,
     photos |-> <<[uri |-> UriPhoto]>>]

MsgB ==
    [sender_name |-> "Bob", timestamp_ms |-> -1500, type |-> "Sticker",
     sticker |-> [uri |-> UriSticker]]

MsgC ==
    [sender_name |-> "Carol", timestamp_ms |-> 999, type |-> "Share", content |-> "look",
     reactions |-> <<[actor |-> "Bob", reaction |-> "like"], [actor |-> "Carol", reaction |-> "like"]>>,
     gifs |-> <<[uri |-> UriGif]>>,
     share |-> [link |-> "http://x"]]

Messages == {MsgA, MsgB, MsgC}

Rosters == {<<[name |-> "Alice"]>>, <<[name |-> "Alice"], [name |-> "Bob"]>>}

\* The metadata the chunks of directory k are expected to carry, and the
\* metadata a chunk file of that directory can carry: the expected one or one
\* that differs from it in a single field.
BaseMeta(k) == [title |-> <<"Chat", k>>, thread_type |-> "Regular", thread_path |-> <<"inbox", k>>]

Metas(k) ==
    {BaseMeta(k),
     [BaseMeta(k) EXCEPT !.title = <<"Renamed", k>>],
     [BaseMeta(k) EXCEPT !.thread_type = "RegularGroup"],
     [BaseMeta(k) EXCEPT !.thread_path = <<"archived", k>>]}

Document(m, roster, msgs) ==
    [title |-> m.title, thread_type |-> m.thread_type, thread_path |-> m.thread_path,
     participants |-> roster, messages |-> msgs]

\* The documents loadJson can return for the n-th chunk file (n from 0) of
\* directory k
Documents(k, n) ==
    {Document(m, r, ms) : m \in (IF n = 0 THEN {BaseMeta(k)} ELSE Metas(k)),
                          r \in Rosters, ms \in SeqsUpTo(Messages, MaxMsgs)}

NoDocument == Document(BaseMeta(-1), <<>>, <<>>)

(***************************************************************************)
(* Python dicts.  participants is a dict {name: id}; a dict keeps its keys *)
(* in insertion order, which is the order _saveConversation inserts the    *)
(* roster rows in, so it is a sequence of entries.                         *)
(***************************************************************************)
EmptyDict == [k \in {} |-> None]

DictKeys(d) == {d[i].name : i \in DOMAIN d}

DictGet(d, k) == d[CHOOSE i \in DOMAIN d : d[i].name = k].id

DictSet(d, k, v) ==
    IF k \in DictKeys(d)
    THEN [i \in DOMAIN d |-> IF d[i].name = k THEN [d[i] EXCEPT !.id = v] ELSE d[i]]
    ELSE Append(d, [name |-> k, id |-> v])

(***************************************************************************)
(* class Conversation                                                      *)
(***************************************************************************)
Conversation_init ==
    [metadata |-> EmptyDict, participants |-> <<>>, chunks_loaded |-> 0,
     messages |-> <<>>, id |-> 0]

RECURSIVE RegisterRoster(_, _)
RegisterRoster(participants, roster) ==
    IF roster = <<>> THEN participants
    ELSE RegisterRoster(DictSet(participants, Head(roster).name, None), Tail(roster))

MetadataOf(doc) ==
    [title |-> doc.title, thread_type |-> doc.thread_type, thread_path |-> doc.thread_path]

\* Conversation.loadMessages(json): the object after the call, and whether
\* the assert raised
loadMessages_prepend(self, doc) ==
    LET metadata == MetadataOf(doc)
        first == DOMAIN self.metadata = {}
    IN  IF ~first /\ self.metadata # metadata
        THEN [self |-> self, raised |-> TRUE]
        ELSE [self |-> [self EXCEPT
                  !.metadata = IF first THEN metadata ELSE @,
                  !.participants = IF first THEN RegisterRoster(@, doc.participants) ELSE @,
                  !.chunks_loaded = @ + 1,
                  !.messages = doc.messages \o @],
              raised |-> FALSE]

loadMessages_titleOnly(self, doc) ==
    LET metadata == MetadataOf(doc)
        first == DOMAIN self.metadata = {}
    IN  IF ~first /\ self.metadata.title # metadata.title
        THEN [self |-> self, raised |-> TRUE]
        ELSE [self |-> [self EXCEPT
                  !.metadata = IF first THEN metadata ELSE @,
                  !.participants = IF first THEN RegisterRoster(@, doc.participants) ELSE @,
                  !.chunks_loaded = @ + 1,
                  !.messages = @ \o doc.messages],
              raised |-> FALSE]

loadMessages_appendFirst(self, doc) ==
    LET metadata == MetadataOf(doc)
        first == DOMAIN self.metadata = {}
        merged == [self EXCEPT
                  !.metadata = IF first THEN metadata ELSE @,
                  !.participants = IF first THEN RegisterRoster(@, doc.participants) ELSE @,
                  !.chunks_loaded = @ + 1,
                  !.messages = @ \o doc.messages]
    IN  IF ~first /\ self.metadata # metadata
        THEN [self |-> [merged EXCEPT !.metadata = self.metadata], raised |-> TRUE]
        ELSE [self |-> merged, raised |-> FALSE]

loadMessages(self, doc) ==
    LET metadata == MetadataOf(doc)
        first == DOMAIN self.metadata = {}       \* not self.metadata
    IN  IF ~first /\ self.metadata # metadata     \* the assert fails
        THEN [self |-> self, raised |-> TRUE]
        ELSE [self |-> [self EXCEPT
                  !.metadata = IF first THEN metadata ELSE @,
                  !.participants = IF first THEN RegisterRoster(@, doc.participants) ELSE @,
                  !.chunks_loaded = @ + 1,
                  !.messages = @ \o doc.messages],
              raised |-> FALSE]

(***************************************************************************)
(* class Database.  A save is a chain of INSERTs on one connection.  The   *)
(* chain threads a record st:                                              *)
(*   db            the connection's view of the tables                     *)
(*   participants  conversation.participants, which the chain mutates      *)
(*   count         INSERTs executed so far                                 *)
(*   failAt        the INSERT (counted from 0) whose execute raises, or    *)
(*                 NoFail                                                  *)
(*   raised        an exception is propagating: nothing further runs       *)
(***************************************************************************)
NULL == "NULL"     \* the SQL NULL a Python None is bound as

Start(d, participants, failAt) ==
    [db |-> d, participants |-> participants, count |-> 0, failAt |-> failAt, raised |-> FALSE]

\* cursor.execute("INSERT INTO <table> ...")
Execute(st, table, row) ==
    IF st.raised THEN st
    ELSE IF st.count = st.failAt THEN [st EXCEPT !.raised = TRUE]
    ELSE [st EXCEPT !.db[table] = Append(@, row), !.count = @ + 1]

SetParticipant(st, name, id) ==
    IF st.raised THEN st ELSE [st EXCEPT !.participants = DictSet(@, name, id)]

_saveParticipant(st, convo, participant, current) ==
    LET rowid == NextRowId(st.db.participants)
    IN  [st |-> Execute(st, "participants",
                    [id |-> rowid, convo_id |-> convo, name |-> participant,
                     current |-> IF current THEN 1 ELSE 0]),
         lastrowid |-> rowid]

_getParticipantId_noCache(st, convo, name) ==
    IF name \in DictKeys(st.participants)
    THEN [st |-> st, id |-> DictGet(st.participants, name)]
    ELSE LET r == _saveParticipant(st, convo, name, FALSE)
         IN  [st |-> r.st, id |-> r.lastrowid]

_getParticipantId_current(st, convo, name) ==
    IF name \in DictKeys(st.participants)
    THEN [st |-> st, id |-> DictGet(st.participants, name)]
    ELSE LET r == _saveParticipant(st, convo, name, TRUE)
         IN  [st |-> SetParticipant(r.st, name, r.lastrowid), id |-> r.lastrowid]

_getParticipantId(st, convo, name) ==
    IF name \in DictKeys(st.participants)
    THEN [st |-> st, id |-> DictGet(st.participants, name)]
    ELSE LET r == _saveParticipant(st, convo, name, FALSE)
         IN  [st |-> SetParticipant(r.st, name, r.lastrowid), id |-> r.lastrowid]

_saveReaction(st, message_id, user_id, reaction) ==
    Execute(st, "reactions", [message_id |-> message_id, user_id |-> user_id, reaction |-> reaction])

\* uri.split('/')[-1]: what follows the last separator
RECURSIVE LastSegment(_)
LastSegment(uri) ==
    IF \E i \in DOMAIN uri : uri[i] = "/"
    THEN LastSegment(SubSeq(uri, (CHOOSE i \in DOMAIN uri : uri[i] = "/" /\ \A j \in 1..(i-1) : uri[j] # "/") + 1,
                            Len(uri)))
    ELSE uri

_saveAttachement(st, table, message_id, data) ==
    Execute(st, table, [message_id |-> message_id, filename |-> LastSegment(data.uri)])

_saveSticker(st, message_id, sticker) ==
    Execute(st, "stickers", [message_id |-> message_id, path |-> sticker.uri])

_saveShare(st, message_id, share) ==
    LET link == IF "link" \in DOMAIN share THEN share.link ELSE NULL
        share_text == IF "share_text" \in DOMAIN share THEN share.share_text ELSE NULL
    IN  Execute(st, "shares", [message_id |-> message_id, link |-> link, share_text |-> share_text])

RECURSIVE SaveReactions(_, _, _, _)
SaveReactions(st, convo, message_id, reactions) ==
    IF reactions = <<>> THEN st
    ELSE LET r == _getParticipantId(st, convo, Head(reactions).actor)
         IN  SaveReactions(_saveReaction(r.st, message_id, r.id, Head(reactions).reaction),
                           convo, message_id, Tail(reactions))

RECURSIVE SaveAttachementList(_, _, _, _)
SaveAttachementList(st, table, message_id, datas) ==
    IF datas = <<>> THEN st
    ELSE SaveAttachementList(_saveAttachement(st, table, message_id, Head(datas)),
                             table, message_id, Tail(datas))

RECURSIVE SaveAttachements(_, _, _, _)
SaveAttachements(st, tables, message_id, msg) ==
    IF tables = <<>> THEN st
    ELSE SaveAttachements(
             IF Head(tables) \in DOMAIN msg
             THEN SaveAttachementList(st, Head(tables), message_id, msg[Head(tables)])
             ELSE st,
             Tail(tables), message_id, msg)

epoch_truncating(msg) ==
    IF msg.timestamp_ms >= 0 THEN msg.timestamp_ms \div 1000 ELSE -((-msg.timestamp_ms) \div 1000)

\* item['timestamp_ms'] // 1000: Python's // rounds toward minus infinity,
\* as \div does
epoch(msg) == msg.timestamp_ms \div 1000

_saveMessage(st, msg, convo) ==
    LET content == IF "content" \in DOMAIN msg THEN msg.content ELSE NULL
        sender == _getParticipantId(st, convo, msg.sender_name)
        message_id == NextRowId(sender.st.db.messages)
        s1 == Execute(sender.st, "messages",
                  [id |-> message_id, timestamp_s |-> epoch(msg), type |-> msg.type,
                   sender_id |-> sender.id, conversation_id |-> convo, content |-> content])
        s2 == IF "reactions" \in DOMAIN msg
              THEN SaveReactions(s1, convo, message_id, msg.reactions) ELSE s1
        s3 == SaveAttachements(s2, attachements, message_id, msg)
        s4 == IF "share" \in DOMAIN msg THEN _saveShare(s3, message_id, msg.share) ELSE s3
        s5 == IF "sticker" \in DOMAIN msg THEN _saveSticker(s4, message_id, msg.sticker) ELSE s4
    IN  [st |-> s5, message_id |-> message_id]

RECURSIVE SaveRoster(_, _, _)
SaveRoster(st, convo, keys) ==
    IF keys = <<>> THEN st
    ELSE LET r == _saveParticipant(st, convo, Head(keys), TRUE)
         IN  SaveRoster(SetParticipant(r.st, Head(keys), r.lastrowid), convo, Tail(keys))

\* for message in item.messages: result = result and self._saveMessage(...)
\* (a result of 0 is false in Python and would skip the messages after it)
RECURSIVE SaveMessages(_, _, _, _)
SaveMessages(st, result, convo, msgs) ==
    IF msgs = <<>> \/ result = 0 THEN st
    ELSE LET r == _saveMessage(st, Head(msgs), convo)
         IN  SaveMessages(r.st, r.message_id, convo, Tail(msgs))

_saveConversation(conv, d, failAt) ==
    LET st0 == Start(d, conv.participants, failAt)
    IN  IF DOMAIN conv.metadata = {}      \* item.metadata['title'] raises KeyError
        THEN [st0 EXCEPT !.raised = TRUE]
        ELSE LET s1 == Execute(st0, "conversations",
                          [id |-> conv.id, title |-> conv.metadata.title,
                           type |-> conv.metadata.thread_type, path |-> conv.metadata.thread_path])
                 s2 == SaveRoster(s1, conv.id, [i \in DOMAIN conv.participants |-> conv.participants[i].name])
             IN  SaveMessages(s2, 1, conv.id, conv.messages)

\* Database.save: self.db.commit() is reached only when _saveConversation
\* returned; what is on disk afterwards
save_commitAlways(r, committed) == r.db

save(r, committed) == IF r.raised THEN committed ELSE r.db

RECURSIVE DeleteFrom(_, _)
DeleteFrom(d, tables) ==
    IF tables = <<>> THEN d
    ELSE DeleteFrom([d EXCEPT ![Head(tables)] = <<>>], Tail(tables))

\* Database.removeAll(Conversation): the tables after the DELETEs and the commit
removeAll_noStickers(d) == DeleteFrom(d, SubSeq(RemovedTables, 1, Len(RemovedTables) - 1))

removeAll(d) == DeleteFrom(d, RemovedTables)

(***************************************************************************)
(* The run (module level, lines 188-210)                                   *)
(***************************************************************************)
NoItem == [sender_name |-> "Alice", timestamp_ms |-> 0, type |-> "Generic"]
NoObj == [name |-> <<>>, tags |-> <<>>, n |-> [t |-> "num", v |-> 0]]

\* An exception reaches the top of the script: there is no try/except
\* around the loop, so the interpreter exits.
Raise_skip == "loop"

Raise == "crashed"

Init ==
    /\ pc = "start"
    /\ db \in PriorDbs
    /\ disk = db
    /\ convo_id = -1
    /\ conversation = Conversation_init
    /\ json = NoDocument
    /\ chunks = <<>>
    /\ fault = "none"
    /\ item = NoItem
    /\ obj = NoObj /\ orig = NoObj /\ parsed = NoObj

\* database.removeAll(Conversation)
RemoveAll ==
    /\ pc = "start"
    /\ db' = removeAll(db)
    /\ disk' = db'
    /\ pc' = "loop"
    /\ UNCHANGED <<convo_id, conversation, json, chunks, fault>>

\* the next iteration of the directory loop: Conversation(convo_directory),
\* conversation.id = convo_id
BeginConversation ==
    /\ pc = "loop"
    /\ convo_id + 1 < MaxConvos
    /\ convo_id' = convo_id + 1
    /\ conversation' = [Conversation_init EXCEPT !.id = convo_id + 1]
    /\ json' = NoDocument
    /\ chunks' = <<>>
    /\ pc' = "loading"
    /\ UNCHANGED <<db, disk, fault>>

\* conversation.loadMessages(loadJson(messages_path)) where loadJson returned
LoadMessages ==
    /\ pc = "loading"
    /\ conversation.chunks_loaded < MaxChunks
    /\ \E doc \in Documents(convo_id, conversation.chunks_loaded) :
          /\ Len(db.messages) + Len(conversation.messages) + Len(doc.messages) <= MaxMsgs
          /\ LET r == loadMessages(conversation, doc)
             IN  /\ json' = doc
                 /\ conversation' = r.self
                 /\ IF r.raised
                    THEN pc' = Raise /\ fault' = "integrity" /\ chunks' = chunks
                    ELSE pc' = pc /\ fault' = fault /\ chunks' = Append(chunks, doc)
    /\ UNCHANGED <<db, disk, convo_id>>

\* loadJson(messages_path) raises: unreadable file, invalid JSON, or a string
\* that parseJsonObject cannot re-decode
LoadJsonRaises ==
    /\ pc = "loading"
    /\ conversation.chunks_loaded < MaxChunks
    /\ pc' = Raise
    /\ fault' = "load"
    /\ UNCHANGED <<db, disk, convo_id, conversation, json, chunks>>

Total(conv, d) == _saveConversation(conv, d, NoFail).count

\* database.save(conversation), with the INSERT that raises (if any) chosen
Save ==
    /\ pc = "loading"
    /\ \E failAt \in 0..Total(conversation, db) :
          LET r == _saveConversation(conversation, db,
                       IF failAt = Total(conversation, db) THEN NoFail ELSE failAt)
          IN  /\ db' = r.db
              /\ disk' = save(r, disk)
              /\ conversation' = [conversation EXCEPT !.participants = r.participants]
              /\ IF r.raised
                 THEN pc' = Raise /\ fault' = "save"
                 ELSE pc' = "loop" /\ fault' = fault
    /\ UNCHANGED <<convo_id, json, chunks>>

\* the loop is over: "The script has finished."
Finish ==
    /\ pc = "loop"
    /\ pc' = "done"
    /\ UNCHANGED <<db, disk, convo_id, conversation, json, chunks, fault>>

Next ==
    \/ RemoveAll /\ UNCHANGED <<item, obj, orig, parsed>>
    \/ BeginConversation /\ UNCHANGED <<item, obj, orig, parsed>>
    \/ LoadMessages /\ UNCHANGED <<item, obj, orig, parsed>>
    \/ LoadJsonRaises /\ UNCHANGED <<item, obj, orig, parsed>>
    \/ Save /\ UNCHANGED <<item, obj, orig, parsed>>
    \/ Finish /\ UNCHANGED <<item, obj, orig, parsed>>

Spec == Init /\ [][Next]_vars

(***************************************************************************)
(* SpecMessage: Database._saveMessage on one message record, from the      *)
(* state _saveConversation is in when its message loop starts (the         *)
(* conversation row and the roster rows inserted, nothing committed).      *)
(***************************************************************************)
MessageRecords ==
    {[sender_name |-> s, timestamp_ms |-> t, type |-> "Generic"] : s \in Names, t \in (-MaxMs)..MaxMs}

InitMessage ==
    /\ pc = "message"
    /\ \E roster \in Rosters :
          LET conv == loadMessages([Conversation_init EXCEPT !.id = 0],
                                   Document(BaseMeta(0), roster, <<>>)).self
              r == _saveConversation(conv, EmptyDb, NoFail)
          IN  /\ db = r.db
              /\ conversation = [conv EXCEPT !.participants = r.participants]
              /\ chunks = <<Document(BaseMeta(0), roster, <<>>)>>
              /\ json = Document(BaseMeta(0), roster, <<>>)
    /\ disk = EmptyDb
    /\ convo_id = 0
    /\ fault = "none"
    /\ item \in MessageRecords
    /\ obj = NoObj /\ orig = NoObj /\ parsed = NoObj

SaveMessage ==
    /\ pc = "message"
    /\ LET r == _saveMessage(Start(db, conversation.participants, NoFail), item, conversation.id)
       IN  /\ db' = r.st.db
           /\ conversation' = [conversation EXCEPT !.participants = r.st.participants,
                                                   !.messages = Append(@, item)]
    /\ pc' = "message_saved"
    /\ UNCHANGED <<disk, convo_id, json, chunks, fault, item, obj, orig, parsed>>

NextMessage == SaveMessage

SpecMessage == InitMessage /\ [][NextMessage]_vars

(***************************************************************************)
(* Text repair.  A str is a sequence of code points, a bytes object a      *)
(* sequence of 0..255.  A codec call returns [ok, v]: ok is FALSE when     *)
(* Python raises UnicodeEncodeError / UnicodeDecodeError.                  *)
(***************************************************************************)
Ok(v) == [ok |-> TRUE, v |-> v]
UnicodeError == [ok |-> FALSE, v |-> <<>>]

IsSurrogate(c) == c >= 55296 /\ c <= 57343

IsContinuation(b) == b >= 128 /\ b <= 191

\* str.encode('utf-8') of one code point
Utf8EncodeChar(c) ==
    IF c < 128 THEN <<c>>
    ELSE IF c < 2048 THEN <<192 + (c \div 64), 128 + (c % 64)>>
    ELSE IF c < 65536 THEN <<224 + (c \div 4096), 128 + ((c \div 64) % 64), 128 + (c % 64)>>
    ELSE <<240 + (c \div 262144), 128 + ((c \div 4096) % 64), 128 + ((c \div 64) % 64), 128 + (c % 64)>>

RECURSIVE Utf8Encode(_)
Utf8Encode(str) ==
    IF str = <<>> THEN Ok(<<>>)
    ELSE IF IsSurrogate(Head(str)) \/ Head(str) > 1114111 THEN UnicodeError
    ELSE LET rest == Utf8Encode(Tail(str))
         IN  IF rest.ok THEN Ok(Utf8EncodeChar(Head(str)) \o rest.v) ELSE UnicodeError

\* bytes.decode('latin_1'): byte b is code point b
Latin1Decode(bytes) == [i \in DOMAIN bytes |-> bytes[i]]

\* str.encode('latin_1'): only code points up to 255 have a byte
Latin1Encode(str) ==
    IF \A i \in DOMAIN str : str[i] <= 255
    THEN Ok([i \in DOMAIN str |-> str[i]])
    ELSE UnicodeError

\* bytes.decode('utf-8'), strict: the length of the sequence that starts
\* at the head of bytes, 0 when it is not well formed
Utf8SeqLen(bytes) ==
    LET b0 == bytes[1]
        n == Len(bytes)
    IN  IF b0 < 128 THEN 1
        ELSE IF b0 >= 194 /\ b0 <= 223
             THEN IF n >= 2 /\ IsContinuation(bytes[2]) THEN 2 ELSE 0
        ELSE IF b0 >= 224 /\ b0 <= 239
             THEN IF /\ n >= 3 /\ IsContinuation(bytes[2]) /\ IsContinuation(bytes[3])
                     /\ (b0 = 224 => bytes[2] >= 160)
                     /\ (b0 = 237 => bytes[2] <= 159)
                  THEN 3 ELSE 0
        ELSE IF b0 >= 240 /\ b0 <= 244
             THEN IF /\ n >= 4 /\ IsContinuation(bytes[2]) /\ IsContinuation(bytes[3])
                     /\ IsContinuation(bytes[4])
                     /\ (b0 = 240 => bytes[2] >= 144)
                     /\ (b0 = 244 => bytes[2] <= 143)
                  THEN 4 ELSE 0
        ELSE 0

Utf8CodePoint(bytes, k) ==
    CASE k = 1 -> bytes[1]
      [] k = 2 -> (bytes[1] - 192) * 64 + (bytes[2] - 128)
      [] k = 3 -> (bytes[1] - 224) * 4096 + (bytes[2] - 128) * 64 + (bytes[3] - 128)
      [] k = 4 -> (bytes[1] - 240) * 262144 + (bytes[2] - 128) * 4096
                    + (bytes[3] - 128) * 64 + (bytes[4] - 128)

RECURSIVE Utf8Decode(_)
Utf8Decode(bytes) ==
    IF bytes = <<>> THEN Ok(<<>>)
    ELSE LET k == Utf8SeqLen(bytes)
         IN  IF k = 0 THEN UnicodeError
             ELSE LET rest == Utf8Decode(SubSeq(bytes, k + 1, Len(bytes)))
                  IN  IF rest.ok THEN Ok(<<Utf8CodePoint(bytes, k)>> \o rest.v) ELSE UnicodeError

\* x.encode('latin_1').decode('utf-8')
Repair(str) ==
    LET b == Latin1Encode(str)
    IN  IF b.ok THEN Utf8Decode(b.v) ELSE UnicodeError

\* JSON values: [t |-> "str", v |-> code points], [t |-> "num", v |-> n],
\* [t |-> "list", v |-> values]
Str(str) == [t |-> "str", v |-> str]
Num(n) == [t |-> "num", v |-> n]
List(xs) == [t |-> "list", v |-> xs]

RepairValue(x) == IF x.t = "str" THEN (IF Repair(x.v).ok THEN Str(Repair(x.v).v) ELSE UnicodeError) ELSE x

\* the value parseJsonObject stores under a key, or UnicodeError
parseField_noList(x) ==
    IF x.t = "str" THEN RepairValue(x) ELSE x

parseField(x) ==
    IF x.t = "str" THEN RepairValue(x)
    ELSE IF x.t = "list"
         THEN IF \A i \in DOMAIN x.v : RepairValue(x.v[i]) # UnicodeError
              THEN List([i \in DOMAIN x.v |-> RepairValue(x.v[i])])
              ELSE UnicodeError
    ELSE x

\* parseJsonObject(obj): the object with every field replaced, or
\* UnicodeError when a codec call raised
parseJsonObject(o) ==
    IF \A k \in DOMAIN o : parseField(o[k]) # UnicodeError
    THEN [k \in DOMAIN o |-> parseField(o[k])]
    ELSE UnicodeError

(***************************************************************************)
(* SpecRepair: parseJsonObject on one object of a chunk file.              *)
(***************************************************************************)
\* code points: A, DEL, U+0080, e-acute, y-diaeresis, U+07FF, U+0800, heavy
\* black heart, U+FFFF, U+10000, grinning face, U+10FFFF
Chars == {65, 127, 128, 233, 255, 2047, 2048, 10084, 65535, 65536, 128512, 1114111}

IsAscii(str) == \A i \in DOMAIN str : str[i] < 128

\* the export's defect: the text's UTF-8 bytes read as Latin-1
Mojibake(str) == Latin1Decode(Utf8Encode(str).v)

JsonObject(s1, s2) == [name |-> Str(s1), tags |-> List(<<Str(s2), Num(7)>>), n |-> Num(1)]

Corrupt(o) == JsonObject(Mojibake(o.name.v), Mojibake(o.tags.v[1].v))

InitRepair ==
    /\ pc = "parse"
    /\ orig \in {JsonObject(s1, s2) : s1 \in SeqsUpTo(Chars, MaxLen), s2 \in SeqsUpTo(Chars, MaxElemLen)}
    /\ obj \in {orig, Corrupt(orig)}
    /\ parsed = NoObj
    /\ db = EmptyDb /\ disk = EmptyDb
    /\ convo_id = -1
    /\ conversation = Conversation_init
    /\ json = NoDocument
    /\ chunks = <<>>
    /\ fault = "none"
    /\ item = NoItem

\* json.load calls the object_hook on the object
ParseJsonObject ==
    /\ pc = "parse"
    /\ parsed' = parseJsonObject(obj)
    /\ pc' = "parsed"
    /\ UNCHANGED <<db, disk, convo_id, conversation, json, chunks, fault, item, obj, orig>>

NextRepair == ParseJsonObject

SpecRepair == InitRepair /\ [][NextRepair]_vars

(***************************************************************************)
(* Vocabulary of the properties                                            *)
(***************************************************************************)
\* the conversation of the current iteration went through database.save
Saved == pc \in {"loop", "done"} /\ convo_id >= 0

RosterNames(doc) == {doc.participants[i].name : i \in DOMAIN doc.participants}

Senders(conv) == {conv.messages[i].sender_name : i \in DOMAIN conv.messages}

ActorsOf(msg) ==
    IF "reactions" \in DOMAIN msg THEN {msg.reactions[i].actor : i \in DOMAIN msg.reactions} ELSE {}

Actors(conv) == UNION {ActorsOf(conv.messages[i]) : i \in DOMAIN conv.messages}

ReactionsOf(msg) == IF "reactions" \in DOMAIN msg THEN msg.reactions ELSE <<>>

ParticipantRows(d, c) == SelectSeq(d.participants, LAMBDA r : r.convo_id = c)

MessageRows(d, c) == SelectSeq(d.messages, LAMBDA r : r.conversation_id = c)

ReactionRows(d, m) == SelectSeq(d.reactions, LAMBDA r : r.message_id = m)

RowsNamed(d, c, n) == {i \in DOMAIN d.participants :
                          d.participants[i].convo_id = c /\ d.participants[i].name = n}

ChunkMessages == Concat([i \in DOMAIN chunks |-> chunks[i].messages])

(***************************************************************************)
(* C1: after a save, every name that is in the conversation's roster, or   *)
(* sends a message, or reacts, has exactly one participants row of that    *)
(* conversation; the participant map holds that row's id; every message    *)
(* row's sender_id and every reaction row's user_id is the id of the row   *)
(* of the name it stands for; a name outside the roster has a not-current  *)
(* row; no two participants rows share an id.                              *)
(***************************************************************************)
C1_OneIdPerName ==
    Saved =>
        LET c == conversation.id
            msgs == conversation.messages
            rows == MessageRows(db, c)
            IdOf(n) == db.participants[CHOOSE i \in RowsNamed(db, c, n) : TRUE].id
        IN  /\ \A n \in RosterNames(chunks[1]) \cup Senders(conversation) \cup Actors(conversation) :
                  /\ Cardinality(RowsNamed(db, c, n)) = 1
                  /\ n \in DictKeys(conversation.participants)
                  /\ DictGet(conversation.participants, n) = IdOf(n)
                  /\ n \notin RosterNames(chunks[1]) =>
                        \A i \in RowsNamed(db, c, n) : db.participants[i].current = 0
            /\ \A i, j \in DOMAIN db.participants :
                  i # j => db.participants[i].id # db.participants[j].id
            /\ Len(rows) = Len(msgs)
            /\ \A i \in DOMAIN msgs :
                  /\ rows[i].sender_id = IdOf(msgs[i].sender_name)
                  /\ LET rs == ReactionRows(db, rows[i].id)
                     IN  /\ Len(rs) = Len(ReactionsOf(msgs[i]))
                         /\ \A j \in DOMAIN rs : rs[j].user_id = IdOf(msgs[i].reactions[j].actor)

\* Carol, outside the roster, reacts in one chunk, then sends and reacts
\* again in the next
C1_Witness ==
    /\ Saved
    /\ Len(chunks) = 2
    /\ chunks[1].messages = <<MsgA>>
    /\ chunks[2].messages = <<MsgC>>
    /\ Cardinality(RowsNamed(db, conversation.id, "Carol")) = 1

(***************************************************************************)
(* C2: a save that raises commits nothing: the step in which the save      *)
(* fails, and every step after it, leaves the committed contents as they   *)
(* were, and no committed row belongs to the conversation whose save       *)
(* failed.                                                                 *)
(***************************************************************************)
C2_AllOrNothing ==
    /\ [](fault = "save" =>
            /\ \A i \in DOMAIN disk.conversations : disk.conversations[i].id # conversation.id
            /\ ParticipantRows(disk, conversation.id) = <<>>
            /\ MessageRows(disk, conversation.id) = <<>>
            /\ Len(disk.conversations) = convo_id)
    /\ [][fault' = "save" => disk' = disk]_vars

\* the second conversation's save raised part-way: its rows are in the open
\* transaction, the first conversation is on disk
C2_Witness ==
    /\ fault = "save"
    /\ convo_id = 1
    /\ Len(disk.conversations) = 1
    /\ Len(db.messages) > Len(disk.messages)
    /\ Len(db.participants) > Len(disk.participants)

(***************************************************************************)
(* C3: every merged chunk carries the metadata adopted from the first      *)
(* chunk; a document handed to loadMessages after the first chunk raised   *)
(* the integrity fault if and only if its (title, thread_type,             *)
(* thread_path) differs from that metadata.                                *)
(***************************************************************************)
C3_MetadataIntegrity ==
    /\ \A i \in DOMAIN chunks : MetadataOf(chunks[i]) = conversation.metadata
    /\ (chunks # <<>> /\ json # NoDocument) =>
          (fault = "integrity" <=> MetadataOf(json) # MetadataOf(chunks[1]))
    /\ Saved => /\ chunks # <<>>
                /\ \A i \in DOMAIN chunks : MetadataOf(chunks[i]) = MetadataOf(chunks[1])

\* a second chunk that differs from the first in thread_path only was rejected
C3_Witness ==
    /\ fault = "integrity"
    /\ Len(chunks) = 1
    /\ json.title = chunks[1].title
    /\ json.thread_type = chunks[1].thread_type
    /\ json.thread_path # chunks[1].thread_path

(***************************************************************************)
(* C4: the message sequence is the concatenation of the merged chunks'     *)
(* message lists in merge order, chunks_loaded is the number of merged     *)
(* chunks, and a save writes one messages row per message, with increasing *)
(* ids, in that order.                                                     *)
(***************************************************************************)
C4_Concatenation ==
    /\ conversation.messages = ChunkMessages
    /\ conversation.chunks_loaded = Len(chunks)
    /\ Saved =>
          LET rows == MessageRows(db, conversation.id)
              SenderName(r) == db.participants[CHOOSE i \in DOMAIN db.participants :
                                                  db.participants[i].id = r.sender_id].name
          IN  /\ Len(rows) = Len(ChunkMessages)
              /\ \A i \in DOMAIN rows :
                    /\ rows[i].type = ChunkMessages[i].type
                    /\ SenderName(rows[i]) = ChunkMessages[i].sender_name
                    /\ rows[i].content = IF "content" \in DOMAIN ChunkMessages[i]
                                         THEN ChunkMessages[i].content ELSE NULL
              /\ \A i, j \in DOMAIN rows : i < j => rows[i].id < rows[j].id

C4_Witness ==
    /\ Saved
    /\ Len(chunks) = 2
    /\ chunks[1].messages = <<MsgC>>
    /\ chunks[2].messages = <<MsgB>>
    /\ Len(MessageRows(db, conversation.id)) = 2

(***************************************************************************)
(* C5: after removeAll and N saves (ids 0..N-1) the conversations table    *)
(* holds exactly N rows with distinct ids; every participants and messages *)
(* row references an existing conversation; every sender_id and user_id is *)
(* the set id of a participants row of the same conversation; every        *)
(* reaction, attachment, share and sticker row references an existing      *)
(* messages row; no row of an earlier run is left in any table.            *)
(***************************************************************************)
C5_NoOrphans ==
    pc \in {"loop", "done"} =>
        LET ConvoIds == {disk.conversations[i].id : i \in DOMAIN disk.conversations}
            MessageIds == {disk.messages[i].id : i \in DOMAIN disk.messages}
            ParticipantIds(c) == {disk.participants[i].id :
                                     i \in {j \in DOMAIN disk.participants : disk.participants[j].convo_id = c}}
            ConvoOfMessage(m) == disk.messages[CHOOSE i \in DOMAIN disk.messages :
                                                  disk.messages[i].id = m].conversation_id
        IN  /\ Len(disk.conversations) = convo_id + 1
            /\ ConvoIds = 0..convo_id
            /\ \A i \in DOMAIN disk.participants : disk.participants[i].convo_id \in ConvoIds
            /\ \A i, j \in DOMAIN disk.messages : i # j => disk.messages[i].id # disk.messages[j].id
            /\ \A i \in DOMAIN disk.messages :
                  /\ disk.messages[i].conversation_id \in ConvoIds
                  /\ disk.messages[i].sender_id # None
                  /\ disk.messages[i].sender_id \in ParticipantIds(disk.messages[i].conversation_id)
            /\ \A i \in DOMAIN disk.reactions :
                  /\ disk.reactions[i].user_id # None
                  /\ disk.reactions[i].message_id \in MessageIds
                  /\ disk.reactions[i].user_id \in ParticipantIds(ConvoOfMessage(disk.reactions[i].message_id))
            /\ \A t \in MessageChildTables : \A i \in DOMAIN disk[t] : disk[t][i].message_id \in MessageIds
            /\ \A t \in Tables : \A i \in DOMAIN disk[t] : disk[t][i] # PriorRow(t)

C5_Witness ==
    /\ pc = "done"
    /\ convo_id >= 1
    /\ Len(disk.conversations) >= 2
    /\ Len(disk.messages) >= 2
    /\ Len(disk.reactions) >= 1
    /\ Len(disk.stickers) >= 1

(***************************************************************************)
(* C6 as stated: after a save, every name listed in the roster of any      *)
(* merged chunk has a participants row with current = 1 whose id the       *)
(* participant map holds; a row is not-current exactly when its name is in *)
(* no merged chunk's roster; no id in the map is unset.                    *)
(***************************************************************************)
C6_AnyChunkRoster ==
    Saved =>
        LET c == conversation.id
            Roster == UNION {RosterNames(chunks[i]) : i \in DOMAIN chunks}
            rows == ParticipantRows(db, c)
        IN  /\ \A n \in Roster :
                  \E i \in DOMAIN rows :
                      /\ rows[i].name = n /\ rows[i].current = 1
                      /\ n \in DictKeys(conversation.participants)
                      /\ DictGet(conversation.participants, n) = rows[i].id
            /\ \A i \in DOMAIN rows : rows[i].current = 0 <=> rows[i].name \notin Roster
            /\ \A i \in DOMAIN conversation.participants : conversation.participants[i].id # None

(***************************************************************************)
(* C6 amended: after a save, every name listed in the roster of the FIRST  *)
(* merged chunk has a participants row with current = 1 whose id the       *)
(* participant map holds, whether or not the name sends or reacts; a row   *)
(* is not-current exactly when its name is absent from the first chunk's   *)
(* roster, and such a name is a sender or a reaction actor; no id in the   *)
(* map is unset.                                                           *)
(***************************************************************************)
C6_FirstChunkRoster ==
    Saved =>
        LET c == conversation.id
            Roster == RosterNames(chunks[1])
            rows == ParticipantRows(db, c)
        IN  /\ \A n \in Roster :
                  \E i \in DOMAIN rows :
                      /\ rows[i].name = n /\ rows[i].current = 1
                      /\ n \in DictKeys(conversation.participants)
                      /\ DictGet(conversation.participants, n) = rows[i].id
            /\ \A i \in DOMAIN rows :
                  /\ rows[i].current = 0 <=> rows[i].name \notin Roster
                  /\ rows[i].current = 0 =>
                        rows[i].name \in Senders(conversation) \cup Actors(conversation)
            /\ \A i \in DOMAIN conversation.participants : conversation.participants[i].id # None

\* Alice is in the roster and never sends or reacts; Bob is listed only in the
\* second chunk's roster and sends
C6_Witness ==
    /\ Saved
    /\ Len(chunks) = 2
    /\ RosterNames(chunks[1]) = {"Alice"}
    /\ RosterNames(chunks[2]) = {"Alice", "Bob"}
    /\ conversation.messages = <<MsgB>>
    /\ Len(ParticipantRows(db, conversation.id)) = 2

(***************************************************************************)
(* C7: once a step of the run has raised, the script is dead: no later     *)
(* step changes the committed contents, moves to another directory, merges *)
(* a chunk or touches the conversation; and whenever the loop is between   *)
(* two directories or over, every directory up to the current index has    *)
(* its conversations row (none was skipped).                               *)
(***************************************************************************)
C7_FailStop ==
    /\ [](pc \in {"loop", "done"} =>
            \A k \in 0..convo_id : \E i \in DOMAIN disk.conversations : disk.conversations[i].id = k)
    /\ [][fault # "none" =>
            /\ disk' = disk /\ db' = db /\ convo_id' = convo_id
            /\ chunks' = chunks /\ conversation' = conversation]_vars

\* the first directory failed while the loop had directories left
C7_Witness ==
    /\ fault = "integrity"
    /\ convo_id = 0
    /\ convo_id + 1 < MaxConvos
    /\ pc = "crashed"

(***************************************************************************)
(* C10: a loadMessages call that raises the integrity fault leaves the     *)
(* conversation as the merged chunks made it: metadata and participant map *)
(* from the first chunk, the messages of the merged chunks only, and       *)
(* chunks_loaded not counting the rejected chunk.                          *)
(***************************************************************************)
C10_RejectedChunkFrame ==
    fault = "integrity" =>
        /\ conversation.metadata = MetadataOf(chunks[1])
        /\ conversation.participants = RegisterRoster(<<>>, chunks[1].participants)
        /\ conversation.messages = ChunkMessages
        /\ conversation.chunks_loaded = Len(chunks)
        /\ conversation.id = convo_id

C10_Witness ==
    /\ fault = "integrity"
    /\ json.messages # <<>>
    /\ conversation.messages # <<>>
    /\ RosterNames(json) # RosterNames(chunks[1])

(***************************************************************************)
(* C8: parseJsonObject returns an all-ASCII object unchanged, and returns  *)
(* the original object when handed the one whose strings are the           *)
(* original's UTF-8 bytes read as Latin-1, for the string field and for    *)
(* the string element of the list field alike.                             *)
(***************************************************************************)
C8_RepairRoundTrip ==
    pc = "parsed" =>
        /\ (IsAscii(obj.name.v) /\ IsAscii(obj.tags.v[1].v)) => parsed = obj
        /\ obj = Corrupt(orig) => parsed = orig

\* a heart in the field and an e-acute in the list, both mis-decoded
C8_Witness ==
    /\ pc = "parsed"
    /\ orig.name.v = <<65, 10084>>
    /\ orig.tags.v[1].v = <<233>>
    /\ obj = Corrupt(orig)
    /\ obj.name.v = <<65, 226, 157, 164>>
    /\ obj.tags.v[1].v = <<195, 169>>
    /\ parsed = orig

(***************************************************************************)
(* C9 as stated: the timestamp_s of the messages row is timestamp_ms / 1000*)
(* with the fractional part discarded (rounded toward zero), negative      *)
(* timestamps included.                                                    *)
(***************************************************************************)
Truncated(ms) == IF ms >= 0 THEN ms \div 1000 ELSE -((-ms) \div 1000)

SavedMessageRow == db.messages[Len(db.messages)]

C9_Truncation ==
    pc = "message_saved" => SavedMessageRow.timestamp_s = Truncated(item.timestamp_ms)

(***************************************************************************)
(* C9 amended: the timestamp_s of the messages row is the floor of         *)
(* timestamp_ms / 1000, the largest integer s with 1000 * s <=             *)
(* timestamp_ms; it is the truncated value when timestamp_ms is not        *)
(* negative or is a multiple of 1000, and one below it otherwise.          *)
(***************************************************************************)
C9_Floor ==
    pc = "message_saved" =>
        LET s == SavedMessageRow.timestamp_s
            ms == item.timestamp_ms
        IN  /\ 1000 * s <= ms
            /\ ms < 1000 * (s + 1)
            /\ (ms >= 0 \/ ms % 1000 = 0) => s = Truncated(ms)
            /\ (ms < 0 /\ ms % 1000 # 0) => s = Truncated(ms) - 1

C9_Witness ==
    /\ pc = "message_saved"
    /\ item.timestamp_ms = -1500
    /\ SavedMessageRow.timestamp_s = -2

====
